---------------------------- MODULE Spec2Model ----------------------------
(***************************************************************************)
(* A model of GeometryAnalysis.run() of geometry_analysis_step: the        *)
(* parsing of the explicit specification, the enumeration of bonds,        *)
(* angles, dihedrals and out-of-plane terms from the bond graph, their     *)
(* canonical ordering by element symbol, and the rows that are reported.   *)
(*                                                                         *)
(* Text is modelled as a sequence of one-character strings, so that the    *)
(* splitting and the conversion to integers are computed, not assumed.     *)
(* Dihedral values are carried in hundredths of a degree (the code formats *)
(* them with two decimals and reads them back), or are not-a-number.  The  *)
(* positions are planar integer points, for which the dihedral is exactly  *)
(* 0 or 180 degrees; the code may print the latter as -180.00, which the   *)
(* description treats alike.  The lengths, angles and out-of-plane values  *)
(* of the other rows are not carried.                                      *)
(***************************************************************************)
EXTENDS Integers, Sequences, FiniteSets, TLC

\* ------------------------------------------------------------------ bounds
MaxAtoms == 4
MaxBonds == 3
MaxTokens == 3

\* the dihedral values classified in one run
MaxValues == 2
MaxCoord == 1

\* ---------------------------------------------------------- text helpers
Digits == <<"0", "1", "2", "3", "4", "5", "6", "7", "8", "9">>

IsDigit(c) == \E d \in 1..10 : Digits[d] = c

DigitVal(c) == (CHOOSE d \in 1..10 : Digits[d] = c) - 1

\* str.replace(old, new) for single characters
Replace(s, old, new) == [p \in 1..Len(s) |-> IF s[p] = old THEN new ELSE s[p]]

\* str.split(): split on runs of blanks, no empty tokens
RECURSIVE SplitBlank(_, _, _)
SplitBlank(s, cur, acc) ==
    IF s = <<>>
    THEN IF cur = <<>> THEN acc ELSE Append(acc, cur)
    ELSE IF Head(s) = " "
         THEN SplitBlank(Tail(s), <<>>, IF cur = <<>> THEN acc ELSE Append(acc, cur))
         ELSE SplitBlank(Tail(s), Append(cur, Head(s)), acc)

\* str.split("-"): split on every "-", empty fields are kept
RECURSIVE SplitDash(_, _, _)
SplitDash(s, cur, acc) ==
    IF s = <<>>
    THEN Append(acc, cur)
    ELSE IF Head(s) = "-"
         THEN SplitDash(Tail(s), <<>>, Append(acc, cur))
         ELSE SplitDash(Tail(s), Append(cur, Head(s)), acc)

\* int(text) succeeds: an optional "+" and then one or more digits
IntOK(f) ==
    LET body == IF f # <<>> /\ Head(f) = "+" THEN Tail(f) ELSE f
    IN  body # <<>> /\ \A p \in 1..Len(body) : IsDigit(body[p])

RECURSIVE DigitsVal(_, _)
DigitsVal(f, acc) ==
    IF f = <<>> THEN acc ELSE DigitsVal(Tail(f), 10 * acc + DigitVal(Head(f)))

\* int(text), for a text that IntOK accepts
ToInt(f) == DigitsVal(IF Head(f) = "+" THEN Tail(f) ELSE f, 0)

\* f"{i}" for a natural number
RECURSIVE ToStr(_)
ToStr(n) == IF n < 10 THEN <<Digits[n + 1]>> ELSE ToStr(n \div 10) \o <<Digits[(n % 10) + 1]>>

RECURSIVE Join(_, _)
Join(parts, sep) ==
    IF parts = <<>> THEN <<>>
    ELSE IF Len(parts) = 1 THEN parts[1]
    ELSE parts[1] \o sep \o Join(Tail(parts), sep)


\* ------------------------------------------------------- generic helpers
\* sorted(S) for a set of integers
RECURSIVE Sorted(_)
Sorted(S) ==
    IF S = {} THEN <<>>
    ELSE LET m == CHOOSE x \in S : \A y \in S : x <= y
         IN  <<m>> \o Sorted(S \ {m})

\* the concatenation F(lo) \o ... \o F(hi)
RECURSIVE ConcatRange(_, _, _)
ConcatRange(F(_), lo, hi) ==
    IF lo > hi THEN <<>> ELSE F(lo) \o ConcatRange(F, lo + 1, hi)

Reverse(t) == [p \in 1..Len(t) |-> t[Len(t) + 1 - p]]

\* ---------------------------------------------------------------- inputs
Elements == {"C", "H"}

\* Python's str "<" on the element symbols in use ("C" < "H")
Rank(el) == CASE el = "C" -> 1 [] el = "H" -> 2

StrLess(a, b) == Rank(a) < Rank(b)

TargetAll == "all"
TargetSpecified == "specified terms"

\* the other values of the enumeration
TargetKinds == {"bonds", "angles", "dihedrals", "bonds and angles"}

\* the atom pairs {i, j}, written with i < j
Pairs(n) == {pr \in (1..n) \X (1..n) : pr[1] < pr[2]}

PairKey(pr) == pr[1] * (MaxAtoms + 2) + pr[2]

\* a set of pairs as a list, in ascending order
RECURSIVE PairSeq(_)
PairSeq(S) ==
    IF S = {} THEN <<>>
    ELSE LET m == CHOOSE x \in S : \A y \in S : PairKey(x) <= PairKey(y)
         IN  <<m>> \o PairSeq(S \ {m})

\* planar positions (z = 0), no two coincident and no three on a line
Points == << <<0, 0, 0>>, <<1, 1, 0>>, <<2, 0, 0>>, <<3, 1, 0>>, <<4, -1, 0>>, <<5, 2, 0>> >>

Coordinates(n) == [a \in 1..n |-> Points[a]]

\* which bonds of the list are written (j, i) with j > i: none, all, or every
\* second one
Flips(S) ==
    LET ps == PairSeq(S)
    IN  { {}, S, {ps[b] : b \in {c \in 1..Len(ps) : c % 2 = 0}} }

\* the bond list of configuration.bonds.get_as_dict(): the pairs of S, those
\* of F written (j, i) instead of (i, j), all of bond order 1
BondList(S, F) ==
    LET ps == PairSeq(S)
    IN  [i |-> [b \in 1..Len(ps) |-> IF ps[b] \in F THEN ps[b][2] ELSE ps[b][1]],
         j |-> [b \in 1..Len(ps) |-> IF ps[b] \in F THEN ps[b][1] ELSE ps[b][2]],
         bondorder |-> [b \in 1..Len(ps) |-> 1]]

\* a chain 1-2-...-n, every second bond written backwards, bond orders 1,2,3,..
ChainBonds(n) ==
    [i |-> [b \in 1..(n - 1) |-> IF b % 2 = 0 THEN b + 1 ELSE b],
     j |-> [b \in 1..(n - 1) |-> IF b % 2 = 0 THEN b ELSE b + 1],
     bondorder |-> [b \in 1..(n - 1) |-> b % 6]]

\* the pairs of S as a bond list, every second bond written (j, i), the bond
\* orders running through 0..5 from shift + 1
OrderedBondList(S, shift) ==
    LET ps == PairSeq(S)
    IN  [i |-> [b \in 1..Len(ps) |-> IF b % 2 = 0 THEN ps[b][2] ELSE ps[b][1]],
         j |-> [b \in 1..Len(ps) |-> IF b % 2 = 0 THEN ps[b][1] ELSE ps[b][2]],
         bondorder |-> [b \in 1..Len(ps) |-> (b + shift) % 6]]

\* the chain 1-2-...-n
ChainPairs(n) == {<<a, a + 1>> : a \in 1..(n - 1)}

\* the centre c bonded to the three atoms of L
StarPairs(c, L) == {<<IF a < c THEN a ELSE c, IF a < c THEN c ELSE a>> : a \in L}

\* the element patterns used with an explicit specification
SymbolPatterns(n) ==
    { [a \in 1..n |-> "C"],
      [a \in 1..n |-> IF a % 2 = 1 THEN "C" ELSE "H"],
      [a \in 1..n |-> IF a \in {1, n} THEN "H" ELSE "C"] }

\* the tokens an explicit specification is written from: an optional "oop"
\* prefix and the fields between the "-" signs.  A field is an atom number
\* (written in decimal) or some other text.
Atom(n) == [ok |-> TRUE, n |-> n, txt |-> <<>>]

Other(txt) == [ok |-> FALSE, n |-> 0, txt |-> txt]

Tok(o, f) == [oop |-> o, fields |-> f]

TokenSet ==
    { Tok(FALSE, <<Atom(1), Atom(2)>>),
      Tok(FALSE, <<Atom(12), Atom(1)>>),
      Tok(FALSE, <<Atom(1), Atom(2), Atom(3)>>),
      Tok(FALSE, <<Atom(1), Atom(2), Atom(3), Atom(4)>>),
      Tok(TRUE,  <<Atom(1), Atom(2), Atom(3), Atom(4)>>),
      Tok(FALSE, <<Atom(1)>>),
      Tok(FALSE, <<Atom(1), Other(<<"a">>)>>),
      Tok(TRUE,  <<Atom(1), Other(<<>>), Atom(3)>>) }

Separators == { <<" ">>, <<",">>, <<",", " ">> }

\* tokens that name a pair without a bond, or the same atom twice
DegenerateTokens ==
    { Tok(FALSE, <<Atom(1), Atom(3)>>),
      Tok(FALSE, <<Atom(1), Atom(1), Atom(2)>>),
      Tok(FALSE, <<Atom(3), Atom(1), Atom(2)>>),
      Tok(FALSE, <<Atom(1), Atom(2), Atom(2), Atom(3)>>) }

\* tokens that name atom 0
ZeroTokens ==
    { Tok(FALSE, <<Atom(0), Atom(1)>>),
      Tok(FALSE, <<Atom(1), Atom(2), Atom(0)>>),
      Tok(FALSE, <<Atom(0), Atom(1), Atom(2), Atom(3)>>) }

\* the text of one token and of a whole specification
FieldText(f) == IF f.ok THEN ToStr(f.n) ELSE f.txt

TokenText(t) ==
    (IF t.oop THEN <<"o", "o", "p">> ELSE <<>>)
        \o Join([p \in 1..Len(t.fields) |-> FieldText(t.fields[p])], <<"-">>)

SpecText(ts, sep) == Join([p \in 1..Len(ts) |-> TokenText(ts[p])], sep)

\* the lists of up to n elements of S
SeqsUpTo(S, n) == UNION {[1..k -> S] : k \in 0..n}


\* ------------------------------------------------ parsing the specification
NoTarget == [bonds |-> <<>>, angles |-> <<>>, dihedrals |-> <<>>, oops |-> <<>>,
             warnings |-> <<>>, error |-> "none"]

Ints(fs) == [p \in 1..Len(fs) |-> ToInt(fs[p])]

AllInts(fs) == \A p \in 1..Len(fs) : IntOK(fs[p])

\* a token that starts with "oop": anything that goes wrong is a warning
ParseOop(term, acc) ==
    LET fs == SplitDash(SubSeq(term, 4, Len(term)), <<>>, <<>>)
    IN  IF Len(fs) = 4 /\ AllInts(fs)
        THEN [acc EXCEPT !.oops = Append(@, Ints(fs))]
        ELSE [acc EXCEPT !.warnings = Append(@, term)]

\* variant: three fields taken for a dihedral
KindOf_ThreeIsDihedral(nf) ==
    CASE nf = 2 -> "bonds" [] nf = 3 -> "dihedrals" [] nf = 4 -> "dihedrals" [] OTHER -> "none"

\* how many fields make which kind of term
KindOf(nf) ==
    CASE nf = 2 -> "bonds" [] nf = 3 -> "angles" [] nf = 4 -> "dihedrals" [] OTHER -> "none"

\* any other token: the number of fields decides, int() is not guarded
ParsePlain(term, acc) ==
    LET fs == SplitDash(term, <<>>, <<>>)
        kind == KindOf(Len(fs))
    IN  IF kind = "none"
        THEN [acc EXCEPT !.warnings = Append(@, term)]
        ELSE IF ~AllInts(fs)
             THEN [acc EXCEPT !.error = "ValueError"]
             ELSE [acc EXCEPT ![kind] = Append(@, Ints(fs))]

IsOopTerm(term) == SubSeq(term, 1, IF Len(term) < 3 THEN Len(term) ELSE 3) = <<"o", "o", "p">>

ParseTerm(term, acc) ==
    IF IsOopTerm(term) THEN ParseOop(term, acc) ELSE ParsePlain(term, acc)

\* the loop over the tokens; an exception ends it
RECURSIVE ParseTerms(_, _)
ParseTerms(terms, acc) ==
    IF terms = <<>> \/ acc.error # "none" THEN acc
    ELSE ParseTerms(Tail(terms), ParseTerm(Head(terms), acc))

TargetTerms(specification) == SplitBlank(Replace(specification, ",", " "), <<>>, <<>>)

ParseSpecification(specification) == ParseTerms(TargetTerms(specification), NoTarget)

\* ------------------------------------------------------ canonical ordering
\* bond (i, j) with symbols el1, el2
bond_order(i, j, el1, el2) ==
    IF StrLess(el1, el2)
    THEN [idx |-> <<i, j>>, els |-> <<el1, el2>>]
    ELSE [idx |-> <<j, i>>, els |-> <<el2, el1>>]

\* angle (i, j, k), the centre j stays
angle_order(i, j, k, el1, el2, el3) ==
    IF StrLess(el1, el3)
    THEN [idx |-> <<i, j, k>>, els |-> <<el1, el2, el3>>]
    ELSE [idx |-> <<k, j, i>>, els |-> <<el3, el2, el1>>]

\* variant: the outer symbols are not looked at
dihedral_order_InnerOnly(i, j, k, l, el1, el2, el3, el4) ==
    LET keep == [idx |-> <<i, j, k, l>>, els |-> <<el1, el2, el3, el4>>]
        flip == [idx |-> <<l, k, j, i>>, els |-> <<el4, el3, el2, el1>>]
    IN  IF StrLess(el2, el3) THEN keep ELSE flip

\* dihedral (i, j, k, l)
dihedral_order(i, j, k, l, el1, el2, el3, el4) ==
    LET keep == [idx |-> <<i, j, k, l>>, els |-> <<el1, el2, el3, el4>>]
        flip == [idx |-> <<l, k, j, i>>, els |-> <<el4, el3, el2, el1>>]
    IN  IF el2 = el3
        THEN IF StrLess(el1, el4) THEN keep ELSE flip
        ELSE IF StrLess(el2, el3) THEN keep ELSE flip

\* sorted(pairs, key=symbol): a stable insertion sort of (symbol, atom) pairs
RECURSIVE InsertBySymbol(_, _)
InsertBySymbol(x, sorted) ==
    IF sorted = <<>> THEN <<x>>
    ELSE IF StrLess(x[1], Head(sorted)[1])
         THEN <<x>> \o sorted
         ELSE <<Head(sorted)>> \o InsertBySymbol(x, Tail(sorted))

RECURSIVE SortBySymbol(_)
SortBySymbol(pairs) ==
    IF pairs = <<>> THEN <<>>
    ELSE InsertBySymbol(pairs[Len(pairs)], SortBySymbol(SubSeq(pairs, 1, Len(pairs) - 1)))


\* ------------------------------------------------------------ evaluation
Sub(p, q) == <<p[1] - q[1], p[2] - q[2], p[3] - q[3]>>

Dot(p, q) == p[1] * q[1] + p[2] * q[2] + p[3] * q[3]

Cross(p, q) == <<p[2] * q[3] - p[3] * q[2], p[3] * q[1] - p[1] * q[3], p[1] * q[2] - p[2] * q[1]>>

Scale(c, p) == <<c * p[1], c * p[2], c * p[3]>>

\* a value: a number c (hundredths of a degree), or not-a-number
Num(c) == [nan |-> FALSE, c |-> c]

NaN == [nan |-> TRUE, c |-> 0]

\* degrees(arctan2(y, x)) in hundredths of a degree, for the directions that
\* are multiples of 45 degrees
Arctan2(y, x) ==
    CASE y = 0 /\ x >= 0 -> 0
      [] y = 0 /\ x < 0 -> 18000
      [] x = 0 /\ y > 0 -> 9000
      [] x = 0 /\ y < 0 -> -9000
      [] y = x /\ x > 0 -> 4500
      [] y = -x /\ x > 0 -> -4500
      [] y = -x /\ x < 0 -> 13500
      [] y = x /\ x < 0 -> -13500
      [] OTHER -> "inexact"

\* variant: the cross product taken with b0
dihedral_xy_CrossB0(p1, p2, p3, p4) ==
    LET b0 == Sub(p1, p2)
        b1 == Sub(p3, p2)
        b2 == Sub(p4, p3)
        n  == Dot(b1, b1)
        V  == Sub(Scale(n, b0), Scale(Dot(b0, b1), b1))
        W  == Sub(Scale(n, b2), Scale(Dot(b2, b1), b1))
    IN  [nan |-> n = 0, x |-> Dot(V, W), y |-> Dot(Cross(b0, V), W)]

\* x and y of dihedral(p1, p2, p3, p4) on integer positions.  With
\* n = |b1|^2, the code's v and w are V / n and W / n and its unit b1 is
\* b1 / sqrt(n), so x and y below are the code's x and y times positive
\* factors that the reversed order of the points shares.  A central bond of
\* length zero divides by zero and gives not-a-number.
dihedral_xy(p1, p2, p3, p4) ==
    LET b0 == Sub(p1, p2)
        b1 == Sub(p3, p2)
        b2 == Sub(p4, p3)
        n  == Dot(b1, b1)
        V  == Sub(Scale(n, b0), Scale(Dot(b0, b1), b1))
        W  == Sub(Scale(n, b2), Scale(Dot(b2, b1), b1))
    IN  [nan |-> n = 0, x |-> Dot(V, W), y |-> Dot(Cross(b1, V), W)]

\* degrees(arctan2(y, x))
dihedral(p1, p2, p3, p4) ==
    LET r == dihedral_xy(p1, p2, p3, p4)
    IN  IF r.nan THEN NaN ELSE Num(Arctan2(r.y, r.x))

\* the three component angles of oop(p1, p2, p3, p4) on integer positions:
\* chi1 is the arcsine of u21 . c34 with c34 the unit vector along
\* u24 x u23, so it has the sign of r21 . (r24 x r23), and is zero when
\* that is zero; likewise chi3 and chi4.  A bond of length zero or two
\* parallel bonds divide by zero and give not-a-number.
oop_chi(p1, p2, p3, p4) ==
    LET r21 == Sub(p1, p2)
        r23 == Sub(p3, p2)
        r24 == Sub(p4, p2)
        c34 == Cross(r24, r23)
        c14 == Cross(r21, r24)
        c13 == Cross(r21, r23)
        Zero == <<0, 0, 0>>
    IN  [nan  |-> Zero \in {r21, r23, r24, c34, c14, c13},
         chi1 |-> Dot(r21, c34),
         chi3 |-> Dot(r23, c14),
         chi4 |-> Dot(r24, c13)]

\* no call of dihedral() or oop() made yet
NoCalls ==
    [forward |-> [called |-> FALSE, nan |-> FALSE, x |-> 0, y |-> 0],
     reverse |-> [called |-> FALSE, nan |-> FALSE, x |-> 0, y |-> 0],
     oop     |-> [called |-> FALSE, nan |-> FALSE, chi1 |-> 0, chi3 |-> 0, chi4 |-> 0]]

DescC == "C  = synperiplaner"
DescGp == "G+ = +synclinal"
DescAp == "A+ = +anticlinal"
DescT == "T  = antiperiplaner"
DescAm == "A- = -anticlinal"
DescGm == "G- = -synclinal"

\* variant: the antiperiplanar test written with "and"
Describe_AndForOr(value) ==
    LET phi == value.c
    IN  IF value.nan THEN <<>>
        ELSE IF phi >= -3000 /\ phi <= 3000 THEN <<DescC>>
        ELSE IF phi > 3000 /\ phi <= 9000 THEN <<DescGp>>
        ELSE IF phi > 9000 /\ phi <= 15000 THEN <<DescAp>>
        ELSE IF phi > 15000 /\ phi < -15000 THEN <<DescT>>
        ELSE IF phi >= 15000 /\ phi < -9000 THEN <<DescAm>>
        ELSE IF phi <= 9000 /\ phi < -3000 THEN <<DescGm>>
        ELSE <<>>

\* variant: 30 is not in the first bin
Describe_StrictThirty(value) ==
    LET phi == value.c
    IN  IF value.nan THEN <<>>
        ELSE IF phi >= -3000 /\ phi < 3000 THEN <<DescC>>
        ELSE IF phi >= 3000 /\ phi <= 9000 THEN <<DescGp>>
        ELSE IF phi > 9000 /\ phi <= 15000 THEN <<DescAp>>
        ELSE IF phi > 15000 \/ phi < -15000 THEN <<DescT>>
        ELSE IF phi >= 15000 /\ phi < -9000 THEN <<DescAm>>
        ELSE IF phi <= 9000 /\ phi < -3000 THEN <<DescGm>>
        ELSE <<>>

\* the descriptions appended for one value: one, or none when no test holds
\* (every comparison with not-a-number is false)
Describe(value) ==
    LET phi == value.c
    IN  IF value.nan THEN <<>>
        ELSE IF phi >= -3000 /\ phi <= 3000 THEN <<DescC>>
        ELSE IF phi > 3000 /\ phi <= 9000 THEN <<DescGp>>
        ELSE IF phi > 9000 /\ phi <= 15000 THEN <<DescAp>>
        ELSE IF phi > 15000 \/ phi < -15000 THEN <<DescT>>
        ELSE IF phi >= 15000 /\ phi < -9000 THEN <<DescAm>>
        ELSE IF phi <= 9000 /\ phi < -3000 THEN <<DescGm>>
        ELSE <<>>

\* ------------------------------------------------- parameters and tables
OutputNone == "none"

OutputSingle == "to a single table"

OutputSeparate == "each term to separate tables"

\* "single" in table_output, "separate" in table_output
IsSingle(table_output) == table_output = OutputSingle

IsSeparate(table_output) == table_output = OutputSeparate

\* str.strip() of a name: a blank name becomes the empty one
Strip(name) == IF name = " " THEN "" ELSE name

\* the parameters of a step as constructed: target "all", no table output,
\* no id column; target and specification as given.  other_columns tells
\* whether any column but the id column has a name (as constructed, the
\* columns of the term and of the value have) or all of them are blank.
DefaultP(tgt, specification) ==
    [target |-> tgt, specification |-> specification, table_output |-> OutputNone,
     table |-> "valence terms", bond_table |-> "bonds", angle_table |-> "angles",
     dihedral_table |-> "dihedrals", oop_table |-> "out-of-planes", id_column |-> "",
     ids |-> <<"<system.name>">>, only_first_id |-> TRUE, other_columns |-> "named"]

\* the names tables are given
TableNames == {"t1", "t2", "t3", "t4"}

\* a name without a table
NoTable == [exists |-> FALSE, rows |-> <<>>, filename |-> <<"", "">>, current_index |-> -1]

NoTables == [name \in TableNames |-> NoTable]

\* the endings of the filename of a table that exists before the run
Suffixes == {".csv", ".json", ".xlsx", ".txt", ".dat", ""}

\* what _save_table can write
Supported == {".csv", ".json", ".xlsx", ".txt"}

\* a row of a table: the id column (when there is one) and, of the other
\* columns, those of the term type and of the atom indices
TableRow(has_id, id, kind, indices) ==
    [has_id |-> has_id, id |-> id, kind |-> kind, indices |-> indices]

\* a table an earlier step left: one row, a filename ending in suffix
EarlierTable(name, suffix) ==
    [exists |-> TRUE, rows |-> <<TableRow(TRUE, <<"earlier">>, "bond", <<"9", "-", "8">>)>>,
     filename |-> <<name, suffix>>, current_index |-> 0]

\* get_table(name) creates the table if needed; a table without a filename
\* gets root_path / f"{name}.csv"
GetTable(tabs, name) ==
    IF tabs[name].exists THEN tabs
    ELSE [tabs EXCEPT ![name] = [exists |-> TRUE, rows |-> <<>>, filename |-> <<name, ".csv">>,
                                 current_index |-> -1]]

\* system.name and configuration.name
SystemName == "water"

ConfigurationName == "initial"

\* lines 276-282: the id text from P["ids"], None without an id column.  The
\* text is a list of pieces, a piece being a placeholder or other text.
IdText(prm) ==
    IF Strip(prm.id_column) = "" THEN <<"None">>
    ELSE IF \E q \in 1..Len(prm.ids) : prm.ids[q] = "<system.name>"
         THEN Replace(prm.ids, "<system.name>", SystemName)
         ELSE IF \E q \in 1..Len(prm.ids) : prm.ids[q] = "<configuration.name>"
              THEN Replace(prm.ids, "<configuration.name>", ConfigurationName)
              ELSE prm.ids

\* the name a handle of separate output stands for, None for a blank name
SeparateHandle(name) == IF Strip(name) = "" THEN "None" ELSE Strip(name)

\* variant: without table output the handles are those of the first table
HandlesOf_NoneIsFirst(prm) ==
    IF IsSingle(prm.table_output)
    THEN LET h == IF Strip(prm.table) = "" THEN "unbound" ELSE Strip(prm.table)
         IN  [bonds |-> h, angles |-> h, dihedrals |-> h, oops |-> h]
    ELSE IF IsSeparate(prm.table_output)
         THEN [bonds |-> SeparateHandle(prm.bond_table), angles |-> SeparateHandle(prm.angle_table),
               dihedrals |-> SeparateHandle(prm.dihedral_table), oops |-> SeparateHandle(prm.oop_table)]
         ELSE [bonds |-> "t1", angles |-> "t1", dihedrals |-> "t1", oops |-> "t1"]

\* lines 284-445: the four handles.  With a single table and a blank name
\* no handle is assigned.
HandlesOf(prm) ==
    IF IsSingle(prm.table_output)
    THEN LET h == IF Strip(prm.table) = "" THEN "unbound" ELSE Strip(prm.table)
         IN  [bonds |-> h, angles |-> h, dihedrals |-> h, oops |-> h]
    ELSE IF IsSeparate(prm.table_output)
         THEN [bonds |-> SeparateHandle(prm.bond_table), angles |-> SeparateHandle(prm.angle_table),
               dihedrals |-> SeparateHandle(prm.dihedral_table), oops |-> SeparateHandle(prm.oop_table)]
         ELSE [bonds |-> "None", angles |-> "None", dihedrals |-> "None", oops |-> "None"]

Unbound == [bonds |-> "unbound", angles |-> "unbound", dihedrals |-> "unbound", oops |-> "unbound"]

\* the tables after get_table for every handle
RECURSIVE GetTables(_, _)
GetTables(tabs, names) ==
    IF names = <<>> THEN tabs
    ELSE GetTables(IF Head(names) \in TableNames THEN GetTable(tabs, Head(names)) ELSE tabs, Tail(names))

\* ----------------------------------------------------------------- state
VARIABLES
    P,              \* the parameters: target and specification (text)
    tokens,         \* the tokens the specification text was written from
    n_atoms,        \* configuration.n_atoms
    symbol,         \* configuration.atoms.symbols
    bonds,          \* configuration.bonds.get_as_dict(): i, j, bondorder
    XYZ,            \* the coordinates
    pc,             \* where run() is
    error,          \* the exception that ended run(), or "none"
    target,         \* the terms parsed from the specification
    warnings,       \* the tokens logged as not interpretable
    bond_rows, angle_rows, dihedral_rows, oop_rows,
    descriptions,   \* the descriptions of the dihedral values
    text,           \* the report being assembled
    printed,        \* the report handed to the printer
    tables,         \* the tables of the flowchart, by name: rows, filename, current index
    handles,        \* bond_handle, angle_handle, dihedral_handle, oop_handle
    id_text,        \* the text of the id column
    have_first_id,  \* whether a row of this run carries the id
    saved,          \* the files written by _save_table, in order
    calls           \* the values returned by dihedral() and oop() called on XYZ

vars == <<P, tokens, n_atoms, symbol, bonds, XYZ, pc, error, target, warnings,
          bond_rows, angle_rows, dihedral_rows, oop_rows, descriptions, text, printed,
          tables, handles, id_text, have_first_id, saved, calls>>

inputs == <<P, tokens, n_atoms, symbol, bonds, XYZ>>

specified == P.target = TargetSpecified

iat == bonds.i

jat == bonds.j

n_bonds == Len(iat)

bondorder_text == <<"-0-", "-", "=", "#", "-4-", "-5-">>

\* variant: only the entry (i, j) of each bond is stored
bondorders_OneWay(i, j) ==
    LET hits == {b \in 1..n_bonds : iat[b] = i /\ jat[b] = j}
    IN  IF hits = {} THEN "."
        ELSE bondorder_text[bonds.bondorder[CHOOSE b \in hits : \A c \in hits : c <= b] + 1]

\* bondorders[(i, j)], "." when the pair has no entry; a later bond of the
\* list overwrites an earlier one
bondorders(i, j) ==
    LET hits == {b \in 1..n_bonds : {<<iat[b], jat[b]>>, <<jat[b], iat[b]>>} \cap {<<i, j>>} # {}}
    IN  IF hits = {} THEN "."
        ELSE bondorder_text[bonds.bondorder[CHOOSE b \in hits : \A c \in hits : c <= b] + 1]

\* neighbors[j], a list of n_atoms + 1 sets indexed from 0
neighbors(j) ==
    {iat[b] : b \in {c \in 1..n_bonds : jat[c] = j}} \cup
    {jat[b] : b \in {c \in 1..n_bonds : iat[c] = j}}

\* symbol[i - 1]: Python counts a negative index from the end
InRange(i) == i - 1 >= -n_atoms /\ i - 1 < n_atoms

Sym(i) == IF i >= 1 THEN symbol[i] ELSE symbol[n_atoms + i]

Pos(i) == IF i >= 1 THEN XYZ[i] ELSE XYZ[n_atoms + i]

AllInRange(terms) == \A p \in 1..Len(terms) : \A q \in 1..Len(terms[p]) : InRange(terms[p][q])


\* ------------------------------------------------------------------ rows
\* f"{i}-{j}", f"{i}-{j}-{k}", f"{i}-{j}-{k}-{l}"
IndexText(idx) == Join([p \in 1..Len(idx) |-> ToStr(idx[p])], <<"-">>)

\* f"{i}-{j}(-{k})-{l}"
OopIndexText(idx) ==
    ToStr(idx[1]) \o <<"-">> \o ToStr(idx[2]) \o <<"(", "-">> \o ToStr(idx[3]) \o <<")", "-">> \o ToStr(idx[4])

\* the bond texts b12, b23, b34 along the tuple
PathBonds(idx) == [p \in 1..(Len(idx) - 1) |-> bondorders(idx[p], idx[p + 1])]

\* the bond texts b21, b23, b24 from the centre
CentreBonds(idx) == <<bondorders(idx[2], idx[1]), bondorders(idx[2], idx[3]), bondorders(idx[2], idx[4])>>

\* f"{el1}{b12}{el2}", f"{el1}{b12}{el2}{b23}{el3}", ...: the pieces in order
TermText(els, bos) ==
    [p \in 1..(2 * Len(els) - 1) |-> IF p % 2 = 1 THEN els[(p + 1) \div 2] ELSE bos[p \div 2]]

\* f"{el1}{b21}{el2}({b23}{el3}){b34}{el4}"
OopTermText(els, bos) == <<els[1], bos[1], els[2], "(", bos[2], els[3], ")", bos[3], els[4]>>

\* a row from an ordered term: indices, symbols, bond texts, index text, label
Row(o) ==
    [idx |-> o.idx, els |-> o.els, bos |-> PathBonds(o.idx), indices |-> IndexText(o.idx),
     term |-> TermText(o.els, PathBonds(o.idx))]

BondRow(i, j) == Row(bond_order(i, j, Sym(i), Sym(j)))

AngleRow(i, j, k) == Row(angle_order(i, j, k, Sym(i), Sym(j), Sym(k)))

DihedralRow(i, j, k, l) == Row(dihedral_order(i, j, k, l, Sym(i), Sym(j), Sym(k), Sym(l)))

\* the positions handed to oop(): XYZ[i - 1], XYZ[j - 1], XYZ[k - 1], XYZ[l - 1]
OopPoints(idx) == [q \in 1..4 |-> Pos(idx[q])]

\* variant: the symbols are sorted, the atoms keep their order
OopRow_SymbolsOnly(j) ==
    LET nb  == Sorted(neighbors(j))
        els == SortBySymbol([p \in 1..Len(nb) |-> <<Sym(nb[p]), nb[p]>>])
        idx == <<nb[1], j, nb[2], nb[3]>>
        el  == <<els[1][1], Sym(j), els[2][1], els[3][1]>>
    IN  [idx |-> idx, els |-> el, bos |-> CentreBonds(idx), indices |-> OopIndexText(idx),
         term |-> OopTermText(el, CentreBonds(idx)), points |-> OopPoints(idx)]

\* the out-of-plane row of centre j: the neighbours sorted by symbol.  The
\* neighbours are a set; CPython iterates a set of small integers in
\* ascending order, which is the order the stable sort starts from.
OopRow(j) ==
    LET nb  == Sorted(neighbors(j))
        els == SortBySymbol([p \in 1..Len(nb) |-> <<Sym(nb[p]), nb[p]>>])
        idx == <<els[1][2], j, els[2][2], els[3][2]>>
        el  == <<els[1][1], Sym(j), els[2][1], els[3][1]>>
    IN  [idx |-> idx, els |-> el, bos |-> CentreBonds(idx), indices |-> OopIndexText(idx),
         term |-> OopTermText(el, CentreBonds(idx)), points |-> OopPoints(idx)]

\* --------------------------------------------------------- enumeration
SpecifiedBonds == [p \in 1..Len(target.bonds) |-> BondRow(target.bonds[p][1], target.bonds[p][2])]

ConnectivityBonds == [b \in 1..n_bonds |-> BondRow(iat[b], jat[b])]

SpecifiedAngles ==
    [p \in 1..Len(target.angles) |->
        AngleRow(target.angles[p][1], target.angles[p][2], target.angles[p][3])]

\* the angles at centre j: every pair i < k of its sorted neighbours
\* variant: the second neighbour runs over all the neighbours but the first
AnglesAt_AllPairs(j) ==
    LET tmp == Sorted(neighbors(j))
        WithFirst(c) ==
            LET Second(d) == IF d = c THEN <<>> ELSE <<AngleRow(tmp[c], j, tmp[d])>>
            IN  ConcatRange(Second, 1, Len(tmp))
    IN  ConcatRange(WithFirst, 1, Len(tmp))

AnglesAt(j) ==
    LET tmp == Sorted(neighbors(j))
        WithFirst(c) ==
            LET Second(d) == <<AngleRow(tmp[c], j, tmp[d])>>
            IN  ConcatRange(Second, c + 1, Len(tmp))
    IN  ConcatRange(WithFirst, 1, Len(tmp))

\* for j in range(n_atoms)
ConnectivityAngles == ConcatRange(AnglesAt, 0, n_atoms - 1)

SpecifiedDihedrals ==
    [p \in 1..Len(target.dihedrals) |->
        LET t == target.dihedrals[p] IN DihedralRow(t[1], t[2], t[3], t[4])]

\* variant: l = j is not skipped
DihedralsAbout_NoSkip(b) ==
    LET j == iat[b]
        k == jat[b]
        nj == Sorted(neighbors(j))
        nk == Sorted(neighbors(k))
        WithFirst(c) ==
            LET Last(d) == <<DihedralRow(nj[c], j, k, nk[d])>>
            IN  IF nj[c] = k THEN <<>> ELSE ConcatRange(Last, 1, Len(nk))
    IN  ConcatRange(WithFirst, 1, Len(nj))

\* the dihedrals about bond b = (j, k): i a neighbour of j other than k,
\* l a neighbour of k other than j
DihedralsAbout(b) ==
    LET j == iat[b]
        k == jat[b]
        nj == Sorted(neighbors(j))
        nk == Sorted(neighbors(k))
        WithFirst(c) ==
            LET Last(d) == IF nk[d] = j THEN <<>> ELSE <<DihedralRow(nj[c], j, k, nk[d])>>
            IN  IF nj[c] = k THEN <<>> ELSE ConcatRange(Last, 1, Len(nk))
    IN  ConcatRange(WithFirst, 1, Len(nj))

ConnectivityDihedrals == ConcatRange(DihedralsAbout, 1, n_bonds)

\* the loop over target["dihedrals"] appends nothing
SpecifiedOops == <<>>

OopsAt(j) == IF Cardinality(neighbors(j)) # 3 THEN <<>> ELSE <<OopRow(j)>>

\* for j in range(n_atoms)
ConnectivityOops == ConcatRange(OopsAt, 0, n_atoms - 1)

DihedralValue(row) == dihedral(Pos(row.idx[1]), Pos(row.idx[2]), Pos(row.idx[3]), Pos(row.idx[4]))

WithValues(rows) ==
    [p \in 1..Len(rows) |->
        [idx |-> rows[p].idx, els |-> rows[p].els, bos |-> rows[p].bos,
         indices |-> rows[p].indices, term |-> rows[p].term, value |-> DihedralValue(rows[p])]]

DescribeAll(rows) ==
    LET One(p) == Describe(rows[p].value) IN ConcatRange(One, 1, Len(rows))


\* ------------------------------------------------------------------ Init
Fresh ==
    /\ pc = "parse"
    /\ error = "none"
    /\ target = NoTarget
    /\ warnings = <<>>
    /\ bond_rows = <<>>
    /\ angle_rows = <<>>
    /\ dihedral_rows = <<>>
    /\ oop_rows = <<>>
    /\ descriptions = <<>>
    /\ text = <<>>
    /\ printed = <<>>
    /\ handles = Unbound
    /\ id_text = <<"None">>
    /\ have_first_id = FALSE
    /\ saved = <<>>
    /\ calls = NoCalls

\* a step as constructed, in a flowchart without tables
NoTableOutput(tgt, specification) ==
    /\ P = DefaultP(tgt, specification)
    /\ tables = NoTables

\* target "all": any bond graph on up to MaxAtoms atoms and MaxBonds bonds
InitConnectivity ==
    /\ n_atoms \in 1..MaxAtoms
    /\ symbol \in [1..n_atoms -> Elements]
    /\ \E S \in SUBSET Pairs(n_atoms) :
         /\ Cardinality(S) <= MaxBonds
         /\ \E F \in Flips(S) : bonds = BondList(S, F)
    /\ XYZ = Coordinates(n_atoms)
    /\ tokens = <<>>
    /\ NoTableOutput(TargetAll, <<>>)

\* target "specified terms": a chain, and up to MaxTokens tokens
InitSpecified ==
    /\ n_atoms = MaxAtoms
    /\ symbol \in SymbolPatterns(n_atoms)
    /\ bonds = ChainBonds(n_atoms)
    /\ XYZ = Coordinates(n_atoms)
    /\ tokens \in SeqsUpTo(TokenSet, MaxTokens)
    /\ \E sep \in Separators :
         NoTableOutput(TargetSpecified, SpecText(tokens, sep))

\* target "specified terms": terms between atoms that are not bonded, and
\* terms that name an atom twice
InitDegenerate ==
    /\ n_atoms = MaxAtoms
    /\ symbol \in SymbolPatterns(n_atoms)
    /\ \E shift \in 0..5 : bonds = OrderedBondList(ChainPairs(n_atoms), shift)
    /\ XYZ = Coordinates(n_atoms)
    /\ tokens \in SeqsUpTo(DegenerateTokens, MaxTokens)
    /\ NoTableOutput(TargetSpecified, SpecText(tokens, <<" ">>))

\* target "specified terms": terms that name atom 0
InitZero ==
    /\ n_atoms = MaxAtoms
    /\ symbol \in SymbolPatterns(n_atoms)
    /\ bonds = ChainBonds(n_atoms)
    /\ XYZ = Coordinates(n_atoms)
    /\ tokens \in SeqsUpTo(ZeroTokens, MaxTokens)
    /\ NoTableOutput(TargetSpecified, SpecText(tokens, <<" ">>))

\* target "bonds", "angles", "dihedrals" or "bonds and angles": a chain or an
\* atom with three neighbours
InitKinds ==
    /\ n_atoms = MaxAtoms
    /\ symbol \in SymbolPatterns(n_atoms)
    /\ \E S \in {ChainPairs(n_atoms), StarPairs(2, {1, 3, 4})}, shift \in 0..1 :
         bonds = OrderedBondList(S, shift)
    /\ XYZ = Coordinates(n_atoms)
    /\ tokens = <<>>
    /\ \E tgt \in TargetKinds : NoTableOutput(tgt, <<>>)

\* target "all": an atom with three neighbours, two of which may be bonded
\* to each other, with bond orders 0..5
InitStar ==
    /\ n_atoms = MaxAtoms
    /\ symbol \in SymbolPatterns(n_atoms)
    /\ \E c \in 1..n_atoms, shift \in 0..5 :
         \E L \in {M \in SUBSET ((1..n_atoms) \ {c}) : Cardinality(M) = 3} :
            \E extra \in {{}, {CHOOSE pr \in Pairs(n_atoms) : pr[1] \in L /\ pr[2] \in L}} :
                bonds = OrderedBondList(StarPairs(c, L) \cup extra, shift)
    /\ XYZ = Coordinates(n_atoms)
    /\ tokens = <<>>
    /\ NoTableOutput(TargetAll, <<>>)

\* the ways the tables are chosen
TableChoices ==
    { [table_output |-> OutputNone, table |-> "", names |-> <<"", "", "", "">>],
      [table_output |-> OutputSingle, table |-> "", names |-> <<"", "", "", "">>],
      [table_output |-> OutputSingle, table |-> " ", names |-> <<"", "", "", "">>],
      [table_output |-> OutputSingle, table |-> "t1", names |-> <<"", "", "", "">>],
      [table_output |-> OutputSeparate, table |-> "", names |-> <<"", "", "", "">>],
      [table_output |-> OutputSeparate, table |-> "", names |-> <<"t1", "t2", "t3", "t4">>],
      [table_output |-> OutputSeparate, table |-> "", names |-> <<"", "t2", "", "">>],
      [table_output |-> OutputSeparate, table |-> "", names |-> <<"t1", "t1", "t2", " ">>] }

\* the texts of P["ids"]: each of the two placeholders, both, and another one
IdTemplates ==
    { <<"<system.name>">>, <<"<configuration.name>">>,
      <<"<system.name>", "/", "<configuration.name>">>, <<"<molecule>">> }

\* the ways the id column is chosen
IdChoices ==
    {[id_column |-> "", ids |-> <<"<system.name>">>, only_first_id |-> TRUE]} \cup
    [id_column : {"ID"}, ids : IdTemplates, only_first_id : BOOLEAN]

\* the ways the columns are chosen: the other columns named with any id
\* column, or blank with a plain one or none
ColumnChoices ==
    [id : IdChoices, other_columns : {"named"}] \cup
    [id : {ic \in IdChoices : ic.ids = <<"<system.name>">> /\ ic.only_first_id},
     other_columns : {"blank"}]

\* the systems written to tables: one atom, two atoms, a chain, and a ring
\* of three with a fourth atom on it (terms of all four kinds)
TableSystems ==
    { [n |-> 1, pairs |-> {}], [n |-> 2, pairs |-> ChainPairs(2)],
      [n |-> MaxAtoms, pairs |-> ChainPairs(MaxAtoms)],
      [n |-> MaxAtoms, pairs |-> StarPairs(2, {1, 3, 4}) \cup {<<1, 3>>}] }

\* target "all" with table output: the tables are new, or an earlier step
\* left them with some filename
InitTables ==
    /\ \E sys \in TableSystems :
         /\ n_atoms = sys.n
         /\ bonds = OrderedBondList(sys.pairs, 0)
    /\ symbol = [a \in 1..n_atoms |-> "C"]
    /\ XYZ = Coordinates(n_atoms)
    /\ tokens = <<>>
    /\ \E tc \in TableChoices, cc \in ColumnChoices :
         P = [DefaultP(TargetAll, <<>>) EXCEPT
                 !.table_output = tc.table_output, !.table = tc.table,
                 !.bond_table = tc.names[1], !.angle_table = tc.names[2],
                 !.dihedral_table = tc.names[3], !.oop_table = tc.names[4],
                 !.id_column = cc.id.id_column, !.ids = cc.id.ids,
                 !.only_first_id = cc.id.only_first_id, !.other_columns = cc.other_columns]
    /\ \/ tables = NoTables
       \/ \E suffix \in Suffixes : tables = [name \in TableNames |-> EarlierTable(name, suffix)]

Init ==
    Fresh /\ (InitConnectivity \/ InitSpecified \/ InitDegenerate \/ InitZero \/ InitKinds \/ InitStar \/ InitTables)

\* --------------------------------------------------------------- actions
Crash(e) ==
    /\ pc' = "crashed"
    /\ error' = e

\* lines 235-264: split the specification and interpret its tokens
Parse ==
    /\ pc = "parse"
    /\ IF specified
       THEN LET r == ParseSpecification(P.specification)
            IN  IF r.error # "none"
                THEN /\ Crash(r.error)
                     /\ UNCHANGED <<target, warnings>>
                ELSE /\ target' = [r EXCEPT !.warnings = <<>>, !.error = "none"]
                     /\ warnings' = r.warnings
                     /\ pc' = "setup"
                     /\ UNCHANGED error
       ELSE /\ pc' = "setup"
            /\ UNCHANGED <<target, warnings, error>>
    /\ UNCHANGED <<inputs, calls, bond_rows, angle_rows, dihedral_rows, oop_rows, descriptions, text, printed,
                   tables, handles, id_text, have_first_id, saved>>

\* lines 266-483: the id text, the tables and their handles
SetUp ==
    /\ pc = "setup"
    /\ id_text' = IdText(P)
    /\ handles' = HandlesOf(P)
    /\ tables' = GetTables(tables, <<HandlesOf(P).bonds, HandlesOf(P).angles,
                                     HandlesOf(P).dihedrals, HandlesOf(P).oops>>)
    /\ have_first_id' = FALSE
    /\ pc' = "bonds"
    /\ UNCHANGED <<inputs, calls, target, warnings, error, bond_rows, angle_rows, dihedral_rows, oop_rows,
                   descriptions, text, printed, saved>>

\* the report section of one kind: its table, or the notice that it is empty
Section(kind, rows) ==
    IF Len(rows) = 0 THEN [kind |-> kind, empty |-> TRUE, lines |-> <<>>]
    ELSE [kind |-> kind, empty |-> FALSE, lines |-> [p \in 1..Len(rows) |-> rows[p].indices]]

\* the id column is None
NoIdColumn == Strip(P.id_column) = ""

\* variant: the first row of every batch carries the id
IdOfRow_EveryBatch(kind, p) ==
    IF NoIdColumn THEN <<>>
    ELSE IF ~P.only_first_id THEN id_text
    ELSE IF p = 1 THEN id_text ELSE <<>>

\* the id column of a batch: with "only first id" the first row carries the
\* id text, unless a single table already has it (never so for the bonds)
IdOfRow(kind, p) ==
    IF NoIdColumn THEN <<>>
    ELSE IF ~P.only_first_id THEN id_text
    ELSE IF kind # "bond" /\ IsSingle(P.table_output) /\ have_first_id THEN <<>>
    ELSE IF p = 1 THEN id_text ELSE <<>>

\* the rows appended to the table of a kind, pandas.DataFrame.from_dict(rows):
\* one for each term with the columns that have a name, none when no column
\* has one (the dictionary is empty)
Batch(kind, rows) ==
    IF P.other_columns = "named"
    THEN [p \in 1..Len(rows) |-> TableRow(~NoIdColumn, IdOfRow(kind, p), kind, rows[p].indices)]
    ELSE IF NoIdColumn THEN <<>>
    ELSE [p \in 1..Len(rows) |-> TableRow(TRUE, IdOfRow(kind, p), "", <<>>)]

\* variant: the table is replaced by the new rows
Appended_Overwrite(table, batch) ==
    [table EXCEPT !.rows = batch, !.current_index = Len(batch) - 1]

\* pandas.concat, handle["table"] and handle["current index"]
Appended(table, batch) ==
    [table EXCEPT !.rows = @ \o batch, !.current_index = Len(table.rows) + Len(batch) - 1]

\* variant: the handle is read and the table saved without rows as well
Report_EmptySaved(kind, name, handle, rows, next) ==
    IF handle = "None"
    THEN /\ text' = Append(text, Section(name, rows))
         /\ pc' = next
         /\ UNCHANGED <<error, tables, have_first_id, saved>>
    ELSE IF handle = "unbound"
         THEN /\ Crash("UnboundLocalError")
              /\ UNCHANGED <<text, tables, have_first_id, saved>>
         ELSE /\ tables' = [tables EXCEPT ![handle] = Appended(@, Batch(kind, rows))]
              /\ have_first_id' = IF ~NoIdColumn /\ P.only_first_id THEN TRUE ELSE have_first_id
              /\ IF tables[handle].filename[2] \in Supported
                 THEN /\ saved' = Append(saved, [name |-> handle, filename |-> tables[handle].filename,
                                                 rows |-> tables'[handle].rows])
                      /\ text' = Append(text, Section(name, rows))
                      /\ pc' = next
                      /\ UNCHANGED error
                 ELSE /\ Crash("RuntimeError")
                      /\ UNCHANGED <<text, saved>>

\* the end of each kind's part of run(): nothing but a notice without rows;
\* with rows, the handle is read, the rows are appended and the table is
\* saved, then the section is added to the report.  An unassigned handle and
\* a filename _save_table cannot write end run().
Report(kind, name, handle, rows, next) ==
    IF Len(rows) = 0 \/ handle = "None"
    THEN /\ text' = Append(text, Section(name, rows))
         /\ pc' = next
         /\ UNCHANGED <<error, tables, have_first_id, saved>>
    ELSE IF handle = "unbound"
         THEN /\ Crash("UnboundLocalError")
              /\ UNCHANGED <<text, tables, have_first_id, saved>>
         ELSE /\ tables' = [tables EXCEPT ![handle] = Appended(@, Batch(kind, rows))]
              /\ have_first_id' = IF ~NoIdColumn /\ P.only_first_id THEN TRUE ELSE have_first_id
              /\ IF tables[handle].filename[2] \in Supported
                 THEN /\ saved' = Append(saved, [name |-> handle, filename |-> tables[handle].filename,
                                                 rows |-> tables'[handle].rows])
                      /\ text' = Append(text, Section(name, rows))
                      /\ pc' = next
                      /\ UNCHANGED error
                 ELSE /\ Crash("RuntimeError")
                      /\ UNCHANGED <<text, saved>>

\* lines 485-606
BondTerms ==
    /\ pc = "bonds"
    /\ IF specified /\ ~AllInRange(target.bonds)
       THEN /\ Crash("IndexError")
            /\ UNCHANGED <<bond_rows, text, tables, have_first_id, saved>>
       ELSE LET rows == IF specified THEN SpecifiedBonds ELSE ConnectivityBonds
            IN  /\ bond_rows' = rows
                /\ Report("bond", "bonds", handles.bonds, rows, "angles")
    /\ UNCHANGED <<inputs, calls, target, warnings, angle_rows, dihedral_rows, oop_rows, descriptions, printed,
                   handles, id_text>>

\* lines 608-761
AngleTerms ==
    /\ pc = "angles"
    /\ IF specified /\ ~AllInRange(target.angles)
       THEN /\ Crash("IndexError")
            /\ UNCHANGED <<angle_rows, text, tables, have_first_id, saved>>
       ELSE LET rows == IF specified THEN SpecifiedAngles ELSE ConnectivityAngles
            IN  /\ angle_rows' = rows
                /\ Report("angle", "angles", handles.angles, rows, "dihedrals")
    /\ UNCHANGED <<inputs, calls, target, warnings, bond_rows, dihedral_rows, oop_rows, descriptions, printed,
                   handles, id_text>>

\* lines 763-976
DihedralTerms ==
    /\ pc = "dihedrals"
    /\ IF specified /\ ~AllInRange(target.dihedrals)
       THEN /\ Crash("IndexError")
            /\ UNCHANGED <<dihedral_rows, descriptions, text, tables, have_first_id, saved>>
       ELSE LET rows == WithValues(IF specified THEN SpecifiedDihedrals ELSE ConnectivityDihedrals)
            IN  /\ dihedral_rows' = rows
                /\ descriptions' = DescribeAll(rows)
                /\ Report("dihedral", "dihedrals", handles.dihedrals, rows, "oops")
    /\ UNCHANGED <<inputs, calls, target, warnings, bond_rows, angle_rows, oop_rows, printed, handles, id_text>>

\* lines 978-1141
OopTerms ==
    /\ pc = "oops"
    /\ LET rows == IF specified THEN SpecifiedOops ELSE ConnectivityOops
       IN  /\ oop_rows' = rows
           /\ Report("oop", "out-of-planes", handles.oops, rows, "report")
    /\ UNCHANGED <<inputs, calls, target, warnings, bond_rows, angle_rows, dihedral_rows, descriptions, printed,
                   handles, id_text>>

\* lines 1143-1161: print the report and return
Finish ==
    /\ pc = "report"
    /\ printed' = text
    /\ pc' = "done"
    /\ UNCHANGED <<inputs, calls, target, warnings, error, bond_rows, angle_rows, dihedral_rows, oop_rows,
                   descriptions, text, tables, handles, id_text, have_first_id, saved>>

Next == Parse \/ SetUp \/ BondTerms \/ AngleTerms \/ DihedralTerms \/ OopTerms \/ Finish

Spec == Init /\ [][Next]_vars

\* ------------------------------------------- the classifier on its own
\* The values the classifier reads are the dihedrals written with two
\* decimals, here in hundredths of a degree: each limit of the tests, the
\* values next to it, and values inside the ranges.
PhiValues ==
    { -17999, -15001, -15000, -14999, -12000, -9001, -9000, -8999, -3001, -3000, -2999,
      0, 2999, 3000, 3001, 8999, 9000, 9001, 14999, 15000, 15001, 18000 }

\* run() at line 860 for a chain of carbon atoms 1-2-...-n: the bonds and
\* angles are reported, the dihedral k-(k+1)-(k+2)-(k+3) has the value phis[k].
\* The torsions of a chain are independent, so every list of values is the
\* list of some geometry; the positions are not read again (no atom of a
\* chain has three neighbours).
InitClassify ==
    \E k \in 0..MaxValues :
        /\ n_atoms = k + 3
        /\ symbol = [a \in 1..n_atoms |-> "C"]
        /\ bonds = ChainBonds(n_atoms)
        /\ XYZ = <<>>
        /\ tokens = <<>>
        /\ NoTableOutput(TargetAll, <<>>)
        /\ handles = HandlesOf(P)
        /\ id_text = IdText(P)
        /\ have_first_id = FALSE
        /\ saved = <<>>
        /\ pc = "classify"
        /\ calls = NoCalls
        /\ error = "none"
        /\ target = NoTarget
        /\ warnings = <<>>
        /\ bond_rows = ConnectivityBonds
        /\ angle_rows = ConnectivityAngles
        /\ oop_rows = <<>>
        /\ descriptions = <<>>
        /\ text = <<Section("bonds", bond_rows), Section("angles", angle_rows)>>
        /\ printed = <<>>
        /\ \E phis \in [1..k -> PhiValues] :
             dihedral_rows =
                 [d \in 1..k |->
                    LET r == DihedralRow(d, d + 1, d + 2, d + 3)
                    IN  [idx |-> r.idx, els |-> r.els, bos |-> r.bos, indices |-> r.indices,
                         term |-> r.term, value |-> Num(phis[d])]]

\* lines 860-976: describe each value, then report the dihedrals
Classify ==
    /\ pc = "classify"
    /\ descriptions' = DescribeAll(dihedral_rows)
    /\ Report("dihedral", "dihedrals", handles.dihedrals, dihedral_rows, "oops")
    /\ UNCHANGED <<inputs, calls, target, warnings, bond_rows, angle_rows, dihedral_rows, oop_rows,
                   printed, handles, id_text>>

NextClassify == Classify \/ OopTerms \/ Finish

SpecClassify == InitClassify /\ [][NextClassify]_vars

\* the positions with integer coordinates of size up to m
Cube(m) == {<<x, y, z>> : x \in -m..m, y \in -m..m, z \in -m..m}

\* the second point at the origin and the third at distance 1, sqrt(2) or 0
Thirds == { <<1, 0, 0>>, <<1, 1, 0>>, <<0, 0, 0>> }

\* the geometry functions on their own: four atoms at integer positions
InitGeometry ==
    /\ n_atoms = 4
    /\ symbol = [a \in 1..n_atoms |-> "C"]
    /\ bonds = ChainBonds(n_atoms)
    /\ tokens = <<>>
    /\ NoTableOutput(TargetAll, <<>>)
    /\ Fresh
    /\ \E p1 \in Cube(MaxCoord), p3 \in Thirds, p4 \in Cube(MaxCoord) :
         XYZ = <<p1, <<0, 0, 0>>, p3, p4>>

\* lines 55-80: dihedral() on the four positions, in order or reversed
CallDihedral ==
    /\ \/ /\ ~calls.forward.called
          /\ calls' = [calls EXCEPT !.forward =
                          [called |-> TRUE] @@ dihedral_xy(XYZ[1], XYZ[2], XYZ[3], XYZ[4])]
       \/ /\ ~calls.reverse.called
          /\ calls' = [calls EXCEPT !.reverse =
                          [called |-> TRUE] @@ dihedral_xy(XYZ[4], XYZ[3], XYZ[2], XYZ[1])]
    /\ UNCHANGED <<inputs, pc, error, target, warnings, bond_rows, angle_rows, dihedral_rows,
                   oop_rows, descriptions, text, printed, tables, handles, id_text,
                   have_first_id, saved>>

\* lines 83-105: oop() on the four positions, the second one the centre
CallOop ==
    /\ ~calls.oop.called
    /\ calls' = [calls EXCEPT !.oop = [called |-> TRUE] @@ oop_chi(XYZ[1], XYZ[2], XYZ[3], XYZ[4])]
    /\ UNCHANGED <<inputs, pc, error, target, warnings, bond_rows, angle_rows, dihedral_rows,
                   oop_rows, descriptions, text, printed, tables, handles, id_text,
                   have_first_id, saved>>

NextGeometry == CallDihedral \/ CallOop

SpecGeometry == InitGeometry /\ [][NextGeometry]_vars


\* ---------------------------------------------------------------- claims
AfterBonds == pc \in {"angles", "dihedrals", "oops", "report", "done"}

AfterAngles == pc \in {"dihedrals", "oops", "report", "done"}

AfterDihedrals == pc \in {"oops", "report", "done"}

AfterOops == pc \in {"report", "done"}

deg(j) == Cardinality(neighbors(j))

RECURSIVE SumRange(_, _, _)
SumRange(F(_), lo, hi) == IF lo > hi THEN 0 ELSE F(lo) + SumRange(F, lo + 1, hi)

\* a row is the term t or its full reversal
Matches(row, t) == row.idx = t \/ row.idx = Reverse(t)

\* every expected term has exactly one row, and every row is an expected term
ExactlyEnumerates(rows, expected) ==
    /\ \A t \in expected : Cardinality({p \in 1..Len(rows) : Matches(rows[p], t)}) = 1
    /\ \A p \in 1..Len(rows) : \E t \in expected : Matches(rows[p], t)

ExpectedAngles ==
    UNION { {t \in neighbors(j) \X {j} \X neighbors(j) : t[1] < t[3]} : j \in 1..n_atoms }

AnglePairs(j) == (deg(j) * (deg(j) - 1)) \div 2

\* C1: with no explicit specification the angle rows are exactly one row for
\* every atom j of 1..n_atoms and every unordered pair of distinct neighbours
\* of j, j in the middle, and their number is the sum of deg(j)*(deg(j)-1)/2.
C1_AnglesOfEveryAtom ==
    (~specified /\ AfterAngles) =>
        /\ ExactlyEnumerates(angle_rows, ExpectedAngles)
        /\ Len(angle_rows) = SumRange(AnglePairs, 1, n_atoms)

ExpectedCentres == {j \in 1..n_atoms : deg(j) = 3}

\* C2: with no explicit specification the out-of-plane rows are exactly one
\* row for every atom of 1..n_atoms that has three neighbours, that atom
\* second and its neighbours in the other places, and no row for another atom.
C2_OopOfEveryCentre ==
    (~specified /\ AfterOops) =>
        /\ \A j \in ExpectedCentres :
             Cardinality({p \in 1..Len(oop_rows) : oop_rows[p].idx[2] = j}) = 1
        /\ \A p \in 1..Len(oop_rows) :
             LET idx == oop_rows[p].idx
             IN  idx[2] \in ExpectedCentres /\ {idx[1], idx[3], idx[4]} = neighbors(idx[2])

ExpectedDihedrals ==
    UNION { {<<i, iat[b], jat[b], l>> :
                i \in neighbors(iat[b]) \ {jat[b]}, l \in neighbors(jat[b]) \ {iat[b]}} :
            b \in 1..n_bonds }

DihedralsOfBond(b) == (deg(iat[b]) - 1) * (deg(jat[b]) - 1)

\* C3: with no explicit specification the dihedral rows are exactly one row
\* for every bond (j,k) of the list, every neighbour i of j other than k and
\* every neighbour l of k other than j, the row being (i,j,k,l) or its
\* reversal, and their number is the sum over bonds of (deg(j)-1)*(deg(k)-1).
C3_DihedralsOfEveryBond ==
    (~specified /\ AfterDihedrals) =>
        /\ ExactlyEnumerates(dihedral_rows, ExpectedDihedrals)
        /\ Len(dihedral_rows) = SumRange(DihedralsOfBond, 1, n_bonds)

\* C3: a finished run on a graph with several dihedrals, one of them reported
\* reversed and one reported as enumerated
C3_Witness ==
    /\ ~specified
    /\ pc = "done"
    /\ Len(dihedral_rows) >= 3
    /\ \E p \in 1..Len(dihedral_rows), b \in 1..n_bonds :
         dihedral_rows[p].idx[2] = jat[b] /\ dihedral_rows[p].idx[3] = iat[b]
    /\ \E p \in 1..Len(dihedral_rows), b \in 1..n_bonds :
         dihedral_rows[p].idx[2] = iat[b] /\ dihedral_rows[p].idx[3] = jat[b]

BondedPairs == {{iat[b], jat[b]} : b \in 1..n_bonds}

\* C4: three atoms C, H, H bonded pairwise, no explicit specification: the
\* run reports 3 bonds, 3 angles, no dihedral and no out-of-plane term.
C4_Triangle ==
    (/\ ~specified
     /\ pc = "done"
     /\ n_atoms = 3
     /\ symbol = <<"C", "H", "H">>
     /\ BondedPairs = {{1, 2}, {1, 3}, {2, 3}}) =>
        /\ Len(bond_rows) = 3
        /\ Len(angle_rows) = 3
        /\ Len(dihedral_rows) = 0
        /\ Len(oop_rows) = 0

IsChain == ~specified /\ n_atoms = 4 /\ BondedPairs = {{1, 2}, {2, 3}, {3, 4}}

\* C5: the chain 1-2-3-4, no explicit specification: the run reports 3
\* bonds, 2 angles centred on atoms 2 and 3 and 1 dihedral over 1,2,3,4, and
\* a dihedral value of 180 degrees is described as antiperiplanar.
C5_Chain ==
    (IsChain /\ pc = "done") =>
        /\ Len(bond_rows) = 3
        /\ Len(angle_rows) = 2
        /\ {angle_rows[p].idx[2] : p \in 1..Len(angle_rows)} = {2, 3}
        /\ Len(dihedral_rows) = 1
        /\ Matches(dihedral_rows[1], <<1, 2, 3, 4>>)
        /\ dihedral_rows[1].value = Num(18000) => descriptions = <<DescT>>

\* C5: the chain has been analysed and its dihedral is 180 degrees
C5_Witness ==
    /\ IsChain
    /\ pc = "done"
    /\ Len(dihedral_rows) = 1
    /\ dihedral_rows[1].value = Num(18000)


\* the specification has been parsed without an exception
Parsed == specified /\ pc # "parse" /\ ~(pc = "crashed" /\ error = "ValueError")

AllAtoms(t) == \A p \in 1..Len(t.fields) : t.fields[p].ok

AtomsOf(t) == [p \in 1..Len(t.fields) |-> t.fields[p].n]

\* the atom tuples of the tokens of one shape, in the order given
TermsOfShape(oop, nf) ==
    LET One(p) ==
            IF tokens[p].oop = oop /\ Len(tokens[p].fields) = nf /\ AllAtoms(tokens[p])
            THEN <<AtomsOf(tokens[p])>> ELSE <<>>
    IN  ConcatRange(One, 1, Len(tokens))

ExampleText ==
    <<"1", "-", "2", " ", "1", "-", "2", "-", "3", " ",
      "o", "o", "p", "1", "-", "2", "-", "3", "-", "4">>

ExampleTerms ==
    /\ target.bonds = << <<1, 2>> >>
    /\ target.angles = << <<1, 2, 3>> >>
    /\ target.oops = << <<1, 2, 3, 4>> >>
    /\ target.dihedrals = <<>>

\* C6: the specification is split on commas and blanks and every well-formed
\* token is classified by its shape: "oop" and four integers is an
\* out-of-plane term, otherwise two, three or four integers are a bond, an
\* angle or a dihedral, in the order given; "1-2 1-2-3 oop1-2-3-4" gives one
\* bond, one angle, one out-of-plane term and no dihedral.
C6_TokensByShape ==
    Parsed =>
        /\ target.bonds = TermsOfShape(FALSE, 2)
        /\ target.angles = TermsOfShape(FALSE, 3)
        /\ target.dihedrals = TermsOfShape(FALSE, 4)
        /\ target.oops = TermsOfShape(TRUE, 4)
        /\ P.specification = ExampleText => ExampleTerms

\* C6: the example of the claim has been parsed
C6_Witness == Parsed /\ P.specification = ExampleText /\ ExampleTerms /\ pc = "done"

\* C7: with an explicit specification every parsed out-of-plane term gives
\* one out-of-plane row, centre second and the same atoms, and the dihedral
\* tokens give dihedral rows only.
C7_SpecifiedOopRows ==
    (specified /\ pc = "done") =>
        /\ Len(oop_rows) = Len(target.oops)
        /\ \A p \in 1..Len(oop_rows) :
             /\ oop_rows[p].idx[2] = target.oops[p][2]
             /\ {oop_rows[p].idx[q] : q \in 1..4} = {target.oops[p][q] : q \in 1..4}
        /\ Len(dihedral_rows) = Len(target.dihedrals)

WellFormed(t) ==
    AllAtoms(t) /\ IF t.oop THEN Len(t.fields) = 4 ELSE Len(t.fields) \in 2..4

MalformedTexts ==
    LET One(p) == IF WellFormed(tokens[p]) THEN <<>> ELSE <<TokenText(tokens[p])>>
    IN  ConcatRange(One, 1, Len(tokens))

\* C8: parsing is never fatal: every malformed token is skipped with a
\* warning, the other tokens are still parsed, and the run goes on.
C8_ParsingNeverFatal ==
    (specified /\ pc # "parse") =>
        /\ error # "ValueError"
        /\ warnings = MalformedTexts
        /\ target.bonds = TermsOfShape(FALSE, 2)
        /\ target.angles = TermsOfShape(FALSE, 3)
        /\ target.dihedrals = TermsOfShape(FALSE, 4)
        /\ target.oops = TermsOfShape(TRUE, 4)

SameTerm(r1, r2) == r1.idx = r2.idx /\ r1.term = r2.term

\* C9: ordering a term and ordering its reversal give the same index tuple
\* and the same label, for bonds, angles and dihedrals, equal symbols included.
C9_SymmetryInvariant ==
    /\ (specified /\ AfterBonds) =>
          \A p \in 1..Len(bond_rows) :
             LET t == target.bonds[p] IN SameTerm(bond_rows[p], BondRow(t[2], t[1]))
    /\ (specified /\ AfterAngles) =>
          \A p \in 1..Len(angle_rows) :
             LET t == target.angles[p] IN SameTerm(angle_rows[p], AngleRow(t[3], t[2], t[1]))
    /\ (specified /\ AfterDihedrals) =>
          \A p \in 1..Len(dihedral_rows) :
             LET t == target.dihedrals[p]
             IN  SameTerm(dihedral_rows[p], DihedralRow(t[4], t[3], t[2], t[1]))

\* C10: ordering a tuple that is already the output of the rule returns it
\* unchanged, for bonds, angles and dihedrals, ties included.
C10_Idempotent ==
    /\ \A p \in 1..Len(bond_rows) :
         LET t == bond_rows[p].idx IN BondRow(t[1], t[2]).idx = t
    /\ \A p \in 1..Len(angle_rows) :
         LET t == angle_rows[p].idx IN AngleRow(t[1], t[2], t[3]).idx = t
    /\ \A p \in 1..Len(dihedral_rows) :
         LET t == dihedral_rows[p].idx IN DihedralRow(t[1], t[2], t[3], t[4]).idx = t


\* Python's "<=" on the element symbols
StrLeq(a, b) == Rank(a) <= Rank(b)

\* the symbol columns are the symbols of the atoms of the index columns
SymbolsFollow(row) == \A q \in 1..Len(row.idx) : row.els[q] = Sym(row.idx[q])

\* C11: every bond row has el1 <= el2, every angle row keeps its centre and
\* has el1 <= el3, every dihedral row has el2 <= el3 and, when they are equal,
\* el1 <= el4; each row is the raw tuple or its full reversal and its symbols
\* are reordered with its indices; with and without an explicit specification.
C11_RowsOrdered ==
    /\ \A p \in 1..Len(bond_rows) :
         LET r == bond_rows[p]
         IN  /\ StrLeq(r.els[1], r.els[2])
             /\ SymbolsFollow(r)
             /\ Matches(r, IF specified THEN target.bonds[p] ELSE <<iat[p], jat[p]>>)
    /\ \A p \in 1..Len(angle_rows) :
         LET r == angle_rows[p]
         IN  /\ StrLeq(r.els[1], r.els[3])
             /\ SymbolsFollow(r)
             /\ IF specified THEN Matches(r, target.angles[p])
                ELSE \E t \in ExpectedAngles : Matches(r, t)
    /\ \A p \in 1..Len(dihedral_rows) :
         LET r == dihedral_rows[p]
         IN  /\ StrLeq(r.els[2], r.els[3])
             /\ r.els[2] = r.els[3] => StrLeq(r.els[1], r.els[4])
             /\ SymbolsFollow(r)
             /\ IF specified THEN Matches(r, target.dihedrals[p])
                ELSE \E t \in ExpectedDihedrals : Matches(r, t)

\* C11: a finished run with a reversed bond row and a reversed dihedral row
\* whose inner symbols are equal
C11_Witness ==
    /\ specified
    /\ pc = "done"
    /\ \E p \in 1..Len(bond_rows) : bond_rows[p].idx = Reverse(target.bonds[p])
    /\ \E p \in 1..Len(dihedral_rows) :
         /\ dihedral_rows[p].idx = Reverse(target.dihedrals[p])
         /\ dihedral_rows[p].els[2] = dihedral_rows[p].els[3]

\* C12: every out-of-plane row has its centre second and the three other
\* atoms in ascending order of symbol (el1 <= el3 <= el4); the index columns,
\* the symbol columns and the positions handed to oop() are of the same tuple.
C12_OopOrdered ==
    \A p \in 1..Len(oop_rows) :
        LET r == oop_rows[p]
        IN  /\ deg(r.idx[2]) = 3
            /\ {r.idx[1], r.idx[3], r.idx[4]} = neighbors(r.idx[2])
            /\ StrLeq(r.els[1], r.els[3])
            /\ StrLeq(r.els[3], r.els[4])
            /\ SymbolsFollow(r)
            /\ \A q \in 1..4 : r.points[q] = Pos(r.idx[q])

\* C12: an out-of-plane row whose atoms were reordered by the sort
C12_Witness ==
    /\ pc = "done"
    /\ \E p \in 1..Len(oop_rows) :
         LET r == oop_rows[p]
         IN  <<r.idx[1], r.idx[3], r.idx[4]>> # Sorted(neighbors(r.idx[2]))


\* C13: after the dihedrals are evaluated, the description column has one
\* entry for every entry of the value column.
C13_OneDescriptionEach ==
    AfterDihedrals => Len(descriptions) = Len(dihedral_rows)

InOpen(c, lo, hi) == lo < c /\ c < hi

\* the description of the p-th value
DescriptionOf(p) == IF p <= Len(descriptions) THEN descriptions[p] ELSE "missing"

\* C14: a value in (-150, -90] is described as "A-" and a value in
\* (-90, -30) as "G-".
C14_NegativeBins ==
    AfterDihedrals =>
        \A p \in 1..Len(dihedral_rows) :
            LET c == dihedral_rows[p].value.c
            IN  /\ (InOpen(c, -15000, -9000) \/ c = -9000) => DescriptionOf(p) = DescAm
                /\ InOpen(c, -9000, -3000) => DescriptionOf(p) = DescGm

\* C15: a value in [-30, 30] is described as "C", in (30, 90] as "G+", in
\* (90, 150] as "A+", in (150, 180] or (-180, -150) as "T"; 30, 90 and 150
\* are in the lower bin.
C15_PositiveBins ==
    AfterDihedrals =>
        \A p \in 1..Len(dihedral_rows) :
            LET c == dihedral_rows[p].value.c
            IN  /\ (InOpen(c, -3000, 3000) \/ c \in {-3000, 3000}) => DescriptionOf(p) = DescC
                /\ (InOpen(c, 3000, 9000) \/ c = 9000) => DescriptionOf(p) = DescGp
                /\ (InOpen(c, 9000, 15000) \/ c = 15000) => DescriptionOf(p) = DescAp
                /\ (InOpen(c, 15000, 18000) \/ c = 18000 \/ InOpen(c, -18000, -15000))
                      => DescriptionOf(p) = DescT

\* C15: a finished run that classified two limits at once
C15_Witness ==
    /\ pc = "done"
    /\ {dihedral_rows[p].value.c : p \in 1..Len(dihedral_rows)} \in
          { {3000, 9000}, {15000, 15001}, {-3000, -17999} }


\* C18: a term of coincident atoms ends in a DegenerateGeometry error and is
\* not a row: no row is written with a value that is not a number.
C18_DegenerateGeometry ==
    \A p \in 1..Len(dihedral_rows) : ~dihedral_rows[p].value.nan


\* the symbol of a bond order, as the claim lists them
BondSymbol(order) ==
    CASE order = 0 -> "-0-"
      [] order = 1 -> "-"
      [] order = 2 -> "="
      [] order = 3 -> "#"
      [] order = 4 -> "-4-"
      [] order = 5 -> "-5-"

\* the separator the claim expects between atoms a and b, in either order
ExpectedSeparator(a, b) ==
    LET hits == {c \in 1..n_bonds : {iat[c], jat[c]} = {a, b}}
    IN  IF hits = {} THEN "."
        ELSE BondSymbol(bonds.bondorder[CHOOSE c \in hits : \A d \in hits : d <= c])

\* the label of a bond, angle or dihedral row: between the q-th and the
\* (q+1)-th symbol stands the bond of the q-th and the (q+1)-th atom
PathLabel(r) ==
    /\ Len(r.term) = 2 * Len(r.idx) - 1
    /\ \A q \in 1..(Len(r.idx) - 1) :
         /\ r.term[2 * q - 1] = r.els[q]
         /\ r.term[2 * q] = ExpectedSeparator(r.idx[q], r.idx[q + 1])
         /\ r.term[2 * q + 2 - 1] = r.els[q + 1]

PathLabels ==
    /\ \A p \in 1..Len(bond_rows) : PathLabel(bond_rows[p])
    /\ \A p \in 1..Len(angle_rows) : PathLabel(angle_rows[p])
    /\ \A p \in 1..Len(dihedral_rows) : PathLabel(dihedral_rows[p])

\* C16 as stated: in every label, the out-of-plane labels included, the
\* separator between two adjacent symbols is the bond of the two atoms they
\* stand for ("." without a bond), by the mapping of bond orders 0..5.
C16_AdjacentSeparators ==
    /\ PathLabels
    /\ \A p \in 1..Len(oop_rows) :
         LET r == oop_rows[p]
         IN  /\ r.term[2] = ExpectedSeparator(r.idx[1], r.idx[2])
             /\ r.term[5] = ExpectedSeparator(r.idx[2], r.idx[3])
             /\ r.term[8] = ExpectedSeparator(r.idx[3], r.idx[4])

\* C16 amended: as stated for bond, angle and dihedral labels; in an
\* out-of-plane label el1 b el2 (b el3) b el4 each separator is the bond from
\* the centre (second atom) to the atom whose symbol it stands next to.
C16_LabelSeparators ==
    /\ PathLabels
    /\ \A p \in 1..Len(oop_rows) :
         LET r == oop_rows[p]
         IN  /\ r.term[2] = ExpectedSeparator(r.idx[2], r.idx[1])
             /\ r.term[5] = ExpectedSeparator(r.idx[2], r.idx[3])
             /\ r.term[8] = ExpectedSeparator(r.idx[2], r.idx[4])
             /\ <<r.term[1], r.term[3], r.term[6], r.term[9]>> = r.els
             /\ <<r.term[4], r.term[7]>> = <<"(", ")">>

\* C16: a finished run with an angle label that has "." and "-5-" in it, its
\* bond written the other way round in the bond list
C16_Witness ==
    /\ pc = "done"
    /\ \E p \in 1..Len(angle_rows) :
         LET r == angle_rows[p]
         IN  /\ {r.term[2], r.term[4]} = {".", "-5-"}
             /\ \E b \in 1..n_bonds : \E q \in 1..2 : <<jat[b], iat[b]>> = <<r.idx[q], r.idx[q + 1]>>


\* the atom-indices text of a row, parsed as a specification, is the one
\* term row.idx of the given kind
RoundTrips(row, kind) ==
    ParseSpecification(row.indices) = [NoTarget EXCEPT ![kind] = <<row.idx>>]

PathRowsRoundTrip ==
    /\ \A p \in 1..Len(bond_rows) : RoundTrips(bond_rows[p], "bonds")
    /\ \A p \in 1..Len(angle_rows) : RoundTrips(angle_rows[p], "angles")
    /\ \A p \in 1..Len(dihedral_rows) : RoundTrips(dihedral_rows[p], "dihedrals")

\* C17: the atom-indices text of every row of every kind, fed to the parser
\* of the specification, gives back a term of the row's kind with the row's
\* atoms.
C17_RoundTrip ==
    /\ PathRowsRoundTrip
    /\ \A p \in 1..Len(oop_rows) : RoundTrips(oop_rows[p], "oops")


\* a table whose filename _save_table cannot write, with rows of this run
UnsupportedAppended(name) ==
    /\ tables[name].exists
    /\ tables[name].filename[2] \notin Supported
    /\ \E p \in 1..Len(tables[name].rows) : tables[name].rows[p].id # <<"earlier">>

\* C19: saving a table whose filename does not end in .csv, .json, .xlsx or
\* .txt fails for that save only: nothing is written for that table, and the
\* run goes on with the remaining kinds and prints its report.
C19_SaveFailureConfined ==
    \A name \in TableNames :
        UnsupportedAppended(name) =>
            /\ \A p \in 1..Len(saved) : saved[p].name # name
            /\ pc # "crashed"

\* the placeholders an id text can be written with
Placeholders == {"<system.name>", "<configuration.name>", "<molecule>"}

\* C20: with an id column, an id text with a placeholder left in it ends the
\* run with a configuration error and is in no row of any table.
C20_NoUnresolvedId ==
    /\ \A name \in TableNames : \A p \in 1..Len(tables[name].rows) :
         \A q \in 1..Len(tables[name].rows[p].id) : tables[name].rows[p].id[q] \notin Placeholders
    /\ (\E q \in 1..Len(id_text) : id_text[q] \in Placeholders) => error = "ConfigurationError"


\* the four parts of run(): where it is, where it goes next, the name of the
\* kind in the report
Parts ==
    { [at |-> "bonds", next |-> "angles", name |-> "bonds"],
      [at |-> "angles", next |-> "dihedrals", name |-> "angles"],
      [at |-> "dihedrals", next |-> "oops", name |-> "dihedrals"],
      [at |-> "oops", next |-> "report", name |-> "out-of-planes"] }

\* the part run() is about to do has no term
NoTermsAt(part) ==
    /\ pc = part.at
    /\ IF specified
       THEN CASE part.at = "bonds" -> target.bonds = <<>>
              [] part.at = "angles" -> target.angles = <<>>
              [] part.at = "dihedrals" -> target.dihedrals = <<>>
              [] part.at = "oops" -> TRUE
       ELSE CASE part.at = "bonds" -> n_bonds = 0
              [] part.at = "angles" -> \A j \in 0..(n_atoms - 1) : Cardinality(neighbors(j)) < 2
              [] part.at = "dihedrals" ->
                    \A b \in 1..n_bonds : neighbors(iat[b]) = {jat[b]} \/ neighbors(jat[b]) = {iat[b]}
              [] part.at = "oops" -> \A j \in 0..(n_atoms - 1) : Cardinality(neighbors(j)) # 3

\* the notice "There are no <kind> in this system."
Notice(name) == [kind |-> name, empty |-> TRUE, lines |-> <<>>]

\* C21: a kind without terms is no error: the step of that kind raises
\* nothing, adds the notice "There are no <kind> in this system" to the
\* report, leaves every table as it is, saves nothing and goes on to the
\* next kind.
C21_EmptyKindIsNoError ==
    [][\A part \in Parts :
          NoTermsAt(part) =>
              /\ pc' = part.next
              /\ error' = error
              /\ text' = Append(text, Notice(part.name))
              /\ tables' = tables
              /\ saved' = saved]_vars

\* C21: a finished run with a table for every kind, in which the bonds were
\* written and saved and the three other kinds had no terms
C21_Witness ==
    /\ pc = "done"
    /\ handles.angles \in TableNames
    /\ Len(saved) = 1
    /\ Len(bond_rows) = 1
    /\ printed = <<Section("bonds", bond_rows), Notice("angles"), Notice("dihedrals"),
                   Notice("out-of-planes")>>


\* the rows of the kind of a part, and its handle
RowsOf(at) ==
    CASE at = "bonds" -> bond_rows
      [] at = "angles" -> angle_rows
      [] at = "dihedrals" -> dihedral_rows
      [] at = "oops" -> oop_rows

HandleOf(at) ==
    CASE at = "bonds" -> handles.bonds
      [] at = "angles" -> handles.angles
      [] at = "dihedrals" -> handles.dihedrals
      [] at = "oops" -> handles.oops

\* this step appends the terms of a part to the table of its handle
Appends(part) ==
    /\ pc = part.at
    /\ HandleOf(part.at) \in TableNames
    /\ Len(RowsOf(part.at)') > 0

\* the table of name has grown by count rows: the rows it had are its first
\* rows, unchanged, and "current index" is the index of its last row; the
\* other tables are as they were
GrownBy(name, count) ==
    /\ Len(tables'[name].rows) = Len(tables[name].rows) + count
    /\ SubSeq(tables'[name].rows, 1, Len(tables[name].rows)) = tables[name].rows
    /\ tables'[name].current_index = Len(tables'[name].rows) - 1
    /\ \A other \in TableNames \ {name} : tables'[other] = tables[other]

OnlyFirstId == P.only_first_id /\ ~NoIdColumn

\* a kind before this part had terms
EarlierKindHadTerms(part) ==
    CASE part.at = "bonds" -> FALSE
      [] part.at = "angles" -> bond_rows # <<>>
      [] part.at = "dihedrals" -> bond_rows # <<>> \/ angle_rows # <<>>
      [] part.at = "oops" -> bond_rows # <<>> \/ angle_rows # <<>> \/ dihedral_rows # <<>>

\* the ids of the batch this step appends: the first row has the id text,
\* or is empty when a single table already got it in this run; all later
\* rows are empty
BatchIds(part) ==
    LET name == HandleOf(part.at)
        old  == Len(tables[name].rows)
        new  == SubSeq(tables'[name].rows, old + 1, Len(tables'[name].rows))
    IN  /\ Len(new) = Len(RowsOf(part.at)')
        /\ \A p \in 2..Len(new) : new[p].id = <<>>
        /\ new[1].id = IF IsSingle(P.table_output) /\ EarlierKindHadTerms(part) THEN <<>> ELSE id_text'

\* the rows of a table that this run appended: those after the rows an
\* earlier run left
RowsOfRun(name) == {p \in 1..Len(tables[name].rows) : tables[name].rows[p].id # <<"earlier">>}

\* the rows of a table that carry the id text of this run
RowsWithId(name) == {p \in 1..Len(tables[name].rows) : tables[name].rows[p].id = id_text}

\* C23: with "only first id" and an id column, only the first row of a batch
\* may carry the id and all later ones are empty; in a single table one row
\* of the run carries it, the first row of the first kind that has terms;
\* with separate tables the first row of every batch carries it.
C23_OnlyFirstId ==
    /\ [][\A part \in Parts : (OnlyFirstId /\ Appends(part)) => BatchIds(part)]_vars
    /\ [](\A name \in TableNames :
            (OnlyFirstId /\ IsSingle(P.table_output) /\ pc \notin {"parse", "setup"})
                => Cardinality(RowsWithId(name)) = IF RowsOfRun(name) = {} THEN 0 ELSE 1)

\* C23: a finished run that wrote the four kinds to a single table
C23_Witness ==
    /\ pc = "done"
    /\ OnlyFirstId
    /\ IsSingle(P.table_output)
    /\ Len(saved) = 4
    /\ \E name \in TableNames : Cardinality(RowsWithId(name)) = 1 /\ Len(tables[name].rows) > 4


\* the rows of the four kinds
AllRows == bond_rows \o angle_rows \o dihedral_rows \o oop_rows

\* C24: every atom index of a row is one of 1..n_atoms, and the symbol and
\* the position used for it are those of that atom, also for the terms of an
\* explicit specification.
C24_IndicesExist ==
    \A p \in 1..Len(AllRows) :
        \A q \in 1..Len(AllRows[p].idx) : AllRows[p].idx[q] \in 1..n_atoms


Sign(v) == IF v > 0 THEN 1 ELSE IF v < 0 THEN -1 ELSE 0

\* dihedral() was called on the four points in both orders, and they are
\* neither degenerate nor planar
BothOrders ==
    /\ calls.forward.called /\ calls.reverse.called
    /\ ~calls.forward.nan
    /\ calls.forward.y # 0

\* C25 as stated: reversing the order of the four points flips the sign of
\* the dihedral angle, that is, the sign of y.
C25_ReversalFlipsSign ==
    BothOrders => Sign(calls.reverse.y) = -Sign(calls.forward.y)

\* C25: reversing the order of the four points leaves the dihedral angle as
\* it is: x and y are the same for both orders.
C25_ReversalKeepsSign ==
    BothOrders =>
        /\ ~calls.reverse.nan
        /\ calls.reverse.x = calls.forward.x
        /\ calls.reverse.y = calls.forward.y

\* C25: both orders evaluated on a twisted chain
C25_Witness ==
    /\ BothOrders
    /\ calls.reverse.y = calls.forward.y
    /\ calls.forward.x # 0

\* C27: for bonds that are neither degenerate nor in one plane chi1, chi3
\* and chi4 have the same sign, so that abs(chi1 + chi3 + chi4) is the sum
\* of their magnitudes.
C27_SameSign ==
    (calls.oop.called /\ ~calls.oop.nan /\ calls.oop.chi1 # 0) =>
        /\ Sign(calls.oop.chi3) = Sign(calls.oop.chi1)
        /\ Sign(calls.oop.chi4) = Sign(calls.oop.chi1)


\* the bond list has each bonded pair once
PairsOnce ==
    \A p, q \in 1..n_bonds :
        p # q => {iat[p], jat[p]} # {iat[q], jat[q]}

\* no two rows have the same index tuple, or tuples that are each other's
\* reversal
NoDuplicates(rows) ==
    \A p, q \in 1..Len(rows) :
        p # q => rows[p].idx # rows[q].idx /\ rows[p].idx # Reverse(rows[q].idx)

\* C26: with target "all" and a bond list that has each bonded pair once, no
\* two bond rows, no two angle rows and no two dihedral rows describe the
\* same term.
C26_NoDuplicateRows ==
    (~specified /\ PairsOnce) =>
        /\ NoDuplicates(bond_rows)
        /\ NoDuplicates(angle_rows)
        /\ NoDuplicates(dihedral_rows)

\* C26: a finished run with several rows of each kind
C26_Witness ==
    /\ pc = "done"
    /\ ~specified /\ PairsOnce
    /\ Len(bond_rows) >= 3
    /\ Len(angle_rows) >= 2
    /\ Len(dihedral_rows) >= 2


\* the kinds of terms a target asks for
KindsOf(tgt) ==
    CASE tgt = "bonds" -> {"bonds"}
      [] tgt = "angles" -> {"angles"}
      [] tgt = "dihedrals" -> {"dihedrals"}
      [] tgt = "bonds and angles" -> {"bonds", "angles"}
      [] OTHER -> {"bonds", "angles", "dihedrals", "oops"}

\* C28: the target selects what is calculated: with "bonds" only bonds, with
\* "angles" only angles, with "dihedrals" only dihedrals, with "bonds and
\* angles" those two kinds, with "all" every kind and with "specified terms"
\* the terms of the specification.
C28_TargetSelects ==
    \A part \in Parts :
        (part.at \notin KindsOf(P.target)) => RowsOf(part.at) = <<>>


\* table output "to a single table" and a blank table name
BlankSingle == IsSingle(P.table_output) /\ Strip(P.table) = ""

\* C29: with a single table and a blank table name the run completes for any
\* system: it writes no rows, saves nothing and still gives the text report.
C29_BlankSingleCompletes ==
    BlankSingle =>
        /\ pc # "crashed"
        /\ saved = <<>>
        /\ pc = "done" => printed = text


\* table output "none"
NoOutput == P.table_output = OutputNone

\* C30: a step as constructed has target "all" and table output "none"; with
\* table output "none" no step of the run creates, fetches or changes a
\* table and nothing is saved, whatever the numbers of terms.
C30_NoneLeavesTables ==
    /\ [](/\ DefaultP(TargetAll, <<>>).target = "all"
          /\ DefaultP(TargetAll, <<>>).table_output = "none"
          /\ NoOutput => saved = <<>>
          /\ NoOutput => \A part \in Parts : HandleOf(part.at) \notin TableNames
          /\ (NoOutput /\ pc \notin {"parse", "setup", "crashed"}) =>
                \A part \in Parts : HandleOf(part.at) = "None")
    /\ [][NoOutput => (tables' = tables /\ saved' = saved)]_vars

\* C30: a finished run without table output, with terms of every kind, in a
\* flowchart that has tables
C30_Witness ==
    /\ NoOutput
    /\ pc = "done"
    /\ \E name \in TableNames : tables[name].exists
    /\ \A part \in Parts : RowsOf(part.at) # <<>>

=============================================================================
